---- MODULE Spec2Model ----
(***************************************************************************)
(* IdexedSubLevel (src/src/index.ts): a sublevel of an ordered key-value   *)
(* store with secondary indexes.  Every index owns a sublevel of composite *)
(* keys [indexValue, primaryKey]; put and del stage one chained batch over *)
(* the main sublevel and the index sublevels, query scans an index         *)
(* sublevel and fetches the records with getMany.                          *)
(*                                                                         *)
(* Conventions of the model                                                *)
(*   - a JavaScript string is the sequence of its code units;              *)
(*   - a JavaScript value that may be undefined is a sequence of length    *)
(*     0 (undefined) or 1 (the value);                                     *)
(*   - a sublevel is the set of its keys (index entries carry the empty    *)
(*     payload "") or, for the main sublevel, a function from the keys     *)
(*     that are present to their records.                                  *)
(***************************************************************************)
EXTENDS Integers, Sequences, FiniteSets, TLC

\* ------------------------------------------------------------------ bounds
\* Number of calls (put, del, query) started in one behaviour.
MaxCalls == 3

\* Number of calls that may be in flight at the same time.
NumProcs == 2

Procs == 1..NumProcs

\* ------------------------------------------------------------- the inputs
\* The code unit of "\uffff", the high-value constant of query's upper bound.
HighChar == 65535

\* Primary keys: "j", "k" and "\uffff".
Keys == { <<106>>, <<107>>, <<HighChar>> }

\* Index values the records carry: "a" and "ab".
IndexValues == { <<97>>, <<97, 98>> }

\* Records.  tag is a string or undefined; addr is an object with a city
\* (a string or undefined), or undefined.
RecA == [tag |-> << <<97>> >>, addr |-> << [city |-> << <<97>> >>] >>]

RecAB == [tag |-> << <<97, 98>> >>, addr |-> << [city |-> <<>>] >>]

RecNoAddr == [tag |-> << <<97>> >>, addr |-> <<>>]

Values == { RecA, RecAB, RecNoAddr }

\* ------------------------------------------------------- index definitions
\* options.indexes, in insertion order: byTag is an object definition with a
\* field, byCity is a function definition, record => record.addr.city, which
\* raises a TypeError on a record without addr.
IndexOrder == << "byTag", "byCity" >>

IndexNames == { IndexOrder[i] : i \in DOMAIN IndexOrder }

\* A getter maps a record to [raised, val]: it raises, or returns val.
FieldGetter(field) ==
    [v \in Values |-> [raised |-> FALSE, val |-> v[field]]]

CityGetter ==
    [v \in Values |->
        IF v.addr = <<>>
        THEN [raised |-> TRUE, val |-> <<>>]
        ELSE [raised |-> FALSE, val |-> v.addr[1].city]]

IndexDefs ==
    [name \in IndexNames |->
        IF name = "byTag"
        THEN [kind |-> "object", getter |-> <<>>, field |-> "tag"]
        ELSE [kind |-> "function", getter |-> << CityGetter >>, field |-> ""]]

\* parseIndexDefinition: a function is the getter; an object gives its getter
\* or else a getter reading def.field.  Every definition of IndexDefs is of
\* one of the two shapes, so the throw of line 62 is not reached.
ParseIndexDefinition(def) ==
    IF def.kind = "function"
    THEN [getter |-> def.getter[1], keyEncoding |-> "charwise"]
    ELSE [getter |-> IF def.getter # <<>> THEN def.getter[1]
                     ELSE FieldGetter(def.field),
          keyEncoding |-> "charwise"]

\* this.indexes after the constructor: one entry per definition; the index's
\* sublevel is the component idx[name] of the state.
indexes == [name \in IndexNames |-> ParseIndexDefinition(IndexDefs[name])]

\* ------------------------------------------------------------ key ordering
\* Lexicographic order of encoded keys (the store compares encoded keys code
\* unit by code unit; a proper prefix sorts first).
RECURSIVE Less(_, _)
Less(a, b) ==
    IF a = <<>> THEN b # <<>>
    ELSE IF b = <<>> THEN FALSE
    ELSE IF a[1] # b[1] THEN a[1] < b[1]
    ELSE Less(Tail(a), Tail(b))

\* charwise on a string: the type tag "J" (74) and the string (the strings of
\* the model hold none of the characters charwise escapes).
EncodeString(str) == <<74>> \o str

\* charwise on an array of strings: the type tag "K" (75), the encoded items
\* separated by '"' (34), and the terminator "!" (33).
RECURSIVE EncodeItems(_)
EncodeItems(a) ==
    IF a = <<>> THEN <<>>
    ELSE IF Len(a) = 1 THEN EncodeString(a[1])
    ELSE EncodeString(a[1]) \o <<34>> \o EncodeItems(Tail(a))

EncodeKey(a) == <<75>> \o EncodeItems(a) \o <<33>>

\* --------------------------------------------------------------- the store
\* The main sublevel with no record, every index sublevel empty.
EmptyStore ==
    [primary |-> <<>>, idx |-> [name \in IndexNames |-> {}]]

\* One operation of a chained batch applied to the store s.
ApplyOp(s, op) ==
    IF op.sublevel = "main"
    THEN IF op.type = "put"
         THEN [s EXCEPT !.primary =
                  [k \in (DOMAIN s.primary) \cup {op.key} |->
                      IF k = op.key THEN op.value ELSE s.primary[k]]]
         ELSE [s EXCEPT !.primary =
                  [k \in (DOMAIN s.primary) \ {op.key} |-> s.primary[k]]]
    ELSE IF op.type = "put"
         THEN [s EXCEPT !.idx[op.sublevel] = @ \cup {op.key}]
         ELSE [s EXCEPT !.idx[op.sublevel] = @ \ {op.key}]

\* batch.write(): the staged operations applied in order, as one unit.
RECURSIVE ApplyAll(_, _)
ApplyAll(s, ops) ==
    IF ops = <<>> THEN s ELSE ApplyAll(ApplyOp(s, Head(ops)), Tail(ops))

\* this.get(key): the record, or undefined.
Get(s, key) ==
    IF key \in DOMAIN s.primary THEN << s.primary[key] >> ELSE <<>>

\* this.getMany(keys): one result per key, in order, undefined when missing.
GetMany(s, ks) == [i \in DOMAIN ks |-> Get(s, ks[i])]

\* sublevel.iterator({gt, lt}): the keys of the sublevel strictly between the
\* bounds, in ascending order of their encoding.
RECURSIVE Ascending(_)
Ascending(S) ==
    IF S = {} THEN <<>>
    ELSE LET m == CHOOSE e \in S :
                    \A f \in S \ {e} : Less(EncodeKey(e), EncodeKey(f))
         IN  <<m>> \o Ascending(S \ {m})

\* An iterator opened with reverse: true.
RECURSIVE Descending(_)
Descending(S) ==
    IF S = {} THEN <<>>
    ELSE LET m == CHOOSE e \in S :
                    \A f \in S \ {e} : Less(EncodeKey(f), EncodeKey(e))
         IN  <<m>> \o Descending(S \ {m})

IteratorReverse(entries, gt, lt) ==
    Descending({ e \in entries :
                   /\ Less(EncodeKey(gt), EncodeKey(e))
                   /\ Less(EncodeKey(e), EncodeKey(lt)) })

Iterator(entries, gt, lt) ==
    Ascending({ e \in entries :
                  /\ Less(EncodeKey(gt), EncodeKey(e))
                  /\ Less(EncodeKey(e), EncodeKey(lt)) })

\* ------------------------------------------------------------ put, staging
\* A loop that catches the getter's exception and leaves the index out.
RECURSIVE PutIndexOpsSwallow(_, _, _, _)
PutIndexOpsSwallow(i, key, value, ops) ==
    IF i > Len(IndexOrder) THEN [ops |-> ops, raised |-> FALSE]
    ELSE LET name == IndexOrder[i]
             got  == indexes[name].getter[value]
         IN  IF ~got.raised /\ got.val # <<>>
             THEN PutIndexOpsSwallow(i + 1, key, value,
                      Append(ops, [type |-> "put", sublevel |-> name,
                                   key |-> << got.val[1], key >>,
                                   value |-> <<>>]))
             ELSE PutIndexOpsSwallow(i + 1, key, value, ops)

\* A loop that builds the composite key the wrong way round, [key,
\* indexValue].
RECURSIVE PutIndexOpsSwapped(_, _, _, _)
PutIndexOpsSwapped(i, key, value, ops) ==
    IF i > Len(IndexOrder) THEN [ops |-> ops, raised |-> FALSE]
    ELSE LET name == IndexOrder[i]
             got  == indexes[name].getter[value]
         IN  IF got.raised THEN [ops |-> ops, raised |-> TRUE]
             ELSE IF got.val # <<>>
             THEN PutIndexOpsSwapped(i + 1, key, value,
                      Append(ops, [type |-> "put", sublevel |-> name,
                                   key |-> << key, got.val[1] >>,
                                   value |-> <<>>]))
             ELSE PutIndexOpsSwapped(i + 1, key, value, ops)

\* The loop of put over Object.values(this.indexes), from index i on: a put
\* of [indexValue, key] for every getter that returns a defined value.  A
\* getter that raises ends the loop with the operations staged so far.
RECURSIVE PutIndexOps(_, _, _, _)
PutIndexOps(i, key, value, ops) ==
    IF i > Len(IndexOrder) THEN [ops |-> ops, raised |-> FALSE]
    ELSE LET name == IndexOrder[i]
             got  == indexes[name].getter[value]
         IN  IF got.raised THEN [ops |-> ops, raised |-> TRUE]
             ELSE IF got.val # <<>>
             THEN PutIndexOps(i + 1, key, value,
                      Append(ops, [type |-> "put", sublevel |-> name,
                                   key |-> << got.val[1], key >>,
                                   value |-> <<>>]))
             ELSE PutIndexOps(i + 1, key, value, ops)

\* A put that stages the record and no index entry.
PutStageMainOnly(key, value) ==
    [ops |-> << [type |-> "put", sublevel |-> "main", key |-> key,
                 value |-> value] >>,
     raised |-> PutIndexOps(1, key, value, <<>>).raised]

\* The batch of put(key, value): the put on the main sublevel first, then
\* the index puts.
PutStage(key, value) ==
    PutIndexOps(1, key, value,
        << [type |-> "put", sublevel |-> "main", key |-> key,
            value |-> value] >>)

\* ------------------------------------------------------------ del, staging
RECURSIVE DelIndexOps(_, _, _, _)
DelIndexOps(i, key, oldValue, ops) ==
    IF i > Len(IndexOrder) THEN [ops |-> ops, raised |-> FALSE]
    ELSE LET name == IndexOrder[i]
             got  == indexes[name].getter[oldValue]
         IN  IF got.raised THEN [ops |-> ops, raised |-> TRUE]
             ELSE IF got.val # <<>>
             THEN DelIndexOps(i + 1, key, oldValue,
                      Append(ops, [type |-> "del", sublevel |-> name,
                                   key |-> << got.val[1], key >>,
                                   value |-> <<>>]))
             ELSE DelIndexOps(i + 1, key, oldValue, ops)

\* A del that stages the index dels and forgets the main sublevel.
DelStageNoMain(key, oldValue) == DelIndexOps(1, key, oldValue, <<>>)

\* The batch of del(key) once the read has returned oldValue: the del on the
\* main sublevel first, then the index dels.
DelStage(key, oldValue) ==
    DelIndexOps(1, key, oldValue,
        << [type |-> "del", sublevel |-> "main", key |-> key,
            value |-> <<>>] >>)

\* ------------------------------------------------------------------- query
\* The scan of query(indexName, value): the primary keys of the entries
\* between [value] and [value, "\uffff"], in the order of the scan.
RECURSIVE Seconds(_)
Seconds(es) ==
    IF es = <<>> THEN <<>> ELSE << Head(es)[2] >> \o Seconds(Tail(es))

\* A scan bounded by the string prefix: from [value] to [value + "\uffff"].
QueryScanPrefix(s, indexName, value) ==
    Seconds(Iterator(s.idx[indexName], << value >>,
                     << value \o <<HighChar>> >>))

QueryScan(s, indexName, value) ==
    Seconds(Iterator(s.idx[indexName], << value >>,
                     << value, <<HighChar>> >>))

\* records.filter(record => record !== undefined)
RECURSIVE Defined(_)
Defined(rs) ==
    IF rs = <<>> THEN <<>>
    ELSE IF Head(rs) = <<>> THEN Defined(Tail(rs))
    ELSE << Head(rs)[1] >> \o Defined(Tail(rs))

\* A lookup that fetches the first collected key only.
QueryLookupFirst(s, ks) == Defined(GetMany(s, << Head(ks) >>))

\* The bulk lookup of query and its filter.
QueryLookup(s, ks) == Defined(GetMany(s, ks))

\* query(indexName, value) with no write between its scan and its lookup.
Query(s, indexName, value) ==
    LET ks == QueryScan(s, indexName, value)
    IN  IF ks = <<>> THEN <<>> ELSE QueryLookup(s, ks)

\* The keys whose records query(indexName, value) returns, in the order of
\* the result: records[i] is the record of the i-th scanned key that getMany
\* found.
QueryKeys(s, indexName, value) ==
    SelectSeq(QueryScan(s, indexName, value), LAMBDA k : Get(s, k) # <<>>)

\* this.indexes starts as the object literal {}: besides its own entries it
\* has the properties every object inherits from Object.prototype, such as
\* toString.
PrototypeNames == { "toString" }

\* this.indexes[indexName]: the entry of a registered index, an inherited
\* property (truthy, with no sublevel), or undefined.
IndexLookup(indexName) ==
    IF indexName \in DOMAIN indexes
    THEN [config |-> TRUE, sublevel |-> << indexName >>]
    ELSE IF indexName \in PrototypeNames
    THEN [config |-> TRUE, sublevel |-> <<>>]
    ELSE [config |-> FALSE, sublevel |-> <<>>]

\* --------------------------------------------------------------- the state
VARIABLES
    store,    \* the main sublevel and the index sublevels
    pc,       \* per call slot: where the call is
    arg,      \* per call slot: the call and its arguments
    batch,    \* per call slot: the operations staged on the chained batch
    keys,     \* per call slot: the keys query has collected
    result,   \* per call slot: how the call ended
    records,  \* per call slot: the records query returned
    io,       \* per call slot: the store primitives the call has invoked
    calls     \* number of calls started so far

vars == << store, pc, arg, batch, keys, result, records, io, calls >>

NoArg == [op |-> "none", key |-> <<>>, value |-> <<>>,
          indexName |-> "", x |-> <<>>]

\* Names query is called with: the registered ones and one that is not.
QueryNames == IndexNames \cup { "nonexistent" } \cup PrototypeNames

Init ==
    /\ store = EmptyStore
    /\ pc = [p \in Procs |-> "idle"]
    /\ arg = [p \in Procs |-> NoArg]
    /\ batch = [p \in Procs |-> <<>>]
    /\ keys = [p \in Procs |-> <<>>]
    /\ result = [p \in Procs |-> "pending"]
    /\ records = [p \in Procs |-> <<>>]
    /\ io = [p \in Procs |-> {}]
    /\ calls = 0

\* A put that writes the record with its own this.put and batches only the
\* index entries.
CallPutDirect(p, key, value) ==
    /\ pc[p] = "idle"
    /\ calls < MaxCalls
    /\ calls' = calls + 1
    /\ arg' = [arg EXCEPT ![p] = [NoArg EXCEPT !.op = "put", !.key = key,
                                               !.value = << value >>]]
    /\ LET st == PutStage(key, value)
       IN  /\ batch' = [batch EXCEPT ![p] = Tail(st.ops)]
           /\ store' = ApplyOp(store, Head(st.ops))
           /\ IF st.raised
              THEN /\ pc' = [pc EXCEPT ![p] = "done"]
                   /\ result' = [result EXCEPT ![p] = "GetterFailure"]
                   /\ io' = io
              ELSE /\ pc' = [pc EXCEPT ![p] = "write"]
                   /\ result' = result
                   /\ io' = [io EXCEPT ![p] = @ \cup {"write"}]
    /\ UNCHANGED << keys, records >>

\* put(key, value) up to its await: the batch is created and staged and
\* batch.write() is called; a getter that raises rejects the call, the batch
\* is never written.
CallPut(p, key, value) ==
    /\ pc[p] = "idle"
    /\ calls < MaxCalls
    /\ calls' = calls + 1
    /\ arg' = [arg EXCEPT ![p] = [NoArg EXCEPT !.op = "put", !.key = key,
                                               !.value = << value >>]]
    /\ LET st == PutStage(key, value)
       IN  /\ batch' = [batch EXCEPT ![p] = st.ops]
           /\ IF st.raised
              THEN /\ pc' = [pc EXCEPT ![p] = "done"]
                   /\ result' = [result EXCEPT ![p] = "GetterFailure"]
                   /\ io' = io
              ELSE /\ pc' = [pc EXCEPT ![p] = "write"]
                   /\ result' = result
                   /\ io' = [io EXCEPT ![p] = @ \cup {"write"}]
    /\ UNCHANGED << store, keys, records >>

\* del(key) up to its first await: this.get(key) is called.
CallDel(p, key) ==
    /\ pc[p] = "idle"
    /\ calls < MaxCalls
    /\ calls' = calls + 1
    /\ arg' = [arg EXCEPT ![p] = [NoArg EXCEPT !.op = "del", !.key = key]]
    /\ pc' = [pc EXCEPT ![p] = "get"]
    /\ io' = [io EXCEPT ![p] = @ \cup {"get"}]
    /\ UNCHANGED << store, batch, keys, result, records >>

\* A del without the check of lines 136 to 139: it stages and writes the
\* del of the main sublevel whatever the read returned.
DelReadNoCheck(p) ==
    /\ pc[p] = "get"
    /\ LET maybeOldValue == Get(store, arg[p].key)
           st == IF maybeOldValue = <<>>
                 THEN [ops |-> << [type |-> "del", sublevel |-> "main",
                                   key |-> arg[p].key, value |-> <<>>] >>,
                       raised |-> FALSE]
                 ELSE DelStage(arg[p].key, maybeOldValue[1])
       IN  /\ batch' = [batch EXCEPT ![p] = st.ops]
           /\ IF st.raised
              THEN /\ pc' = [pc EXCEPT ![p] = "done"]
                   /\ result' = [result EXCEPT ![p] = "GetterFailure"]
                   /\ io' = io
              ELSE /\ pc' = [pc EXCEPT ![p] = "write"]
                   /\ result' = result
                   /\ io' = [io EXCEPT ![p] = @ \cup {"write"}]
    /\ UNCHANGED << store, arg, keys, records, calls >>

\* del(key) from the result of this.get(key) to its second await: undefined
\* ends the call; otherwise the batch is staged from the value read and
\* batch.write() is called.
DelRead(p) ==
    /\ pc[p] = "get"
    /\ LET maybeOldValue == Get(store, arg[p].key)
       IN  IF maybeOldValue = <<>>
           THEN /\ pc' = [pc EXCEPT ![p] = "done"]
                /\ result' = [result EXCEPT ![p] = "ok"]
                /\ UNCHANGED << batch, io >>
           ELSE LET st == DelStage(arg[p].key, maybeOldValue[1])
                IN  /\ batch' = [batch EXCEPT ![p] = st.ops]
                    /\ IF st.raised
                       THEN /\ pc' = [pc EXCEPT ![p] = "done"]
                            /\ result' = [result EXCEPT ![p] = "GetterFailure"]
                            /\ io' = io
                       ELSE /\ pc' = [pc EXCEPT ![p] = "write"]
                            /\ result' = result
                            /\ io' = [io EXCEPT ![p] = @ \cup {"write"}]
    /\ UNCHANGED << store, arg, keys, records, calls >>

\* batch.write() of put or del succeeds: every staged operation is applied.
Write(p) ==
    /\ pc[p] = "write"
    /\ store' = ApplyAll(store, batch[p])
    /\ pc' = [pc EXCEPT ![p] = "done"]
    /\ result' = [result EXCEPT ![p] = "ok"]
    /\ UNCHANGED << arg, batch, keys, records, io, calls >>

\* batch.write() of put or del fails: nothing is applied, the call rejects.
WriteFail(p) ==
    /\ pc[p] = "write"
    /\ pc' = [pc EXCEPT ![p] = "done"]
    /\ result' = [result EXCEPT ![p] = "StoreFailure"]
    /\ UNCHANGED << store, arg, batch, keys, records, io, calls >>

\* query(indexName, value) up to its first await: an undefined config throws
\* the "not defined" error, a config with no sublevel makes
\* config.sublevel.iterator a TypeError, otherwise the iterator is opened.
CallQuery(p, indexName, value) ==
    /\ pc[p] = "idle"
    /\ calls < MaxCalls
    /\ calls' = calls + 1
    /\ arg' = [arg EXCEPT ![p] = [NoArg EXCEPT !.op = "query",
                                               !.indexName = indexName,
                                               !.x = value]]
    /\ IF ~IndexLookup(indexName).config
       THEN /\ pc' = [pc EXCEPT ![p] = "done"]
            /\ result' = [result EXCEPT ![p] = "IndexNotFound"]
            /\ io' = io
       ELSE IF IndexLookup(indexName).sublevel = <<>>
       THEN /\ pc' = [pc EXCEPT ![p] = "done"]
            /\ result' = [result EXCEPT ![p] = "TypeError"]
            /\ io' = io
       ELSE /\ pc' = [pc EXCEPT ![p] = "scan"]
            /\ result' = result
            /\ io' = [io EXCEPT ![p] = @ \cup {"iterator"}]
    /\ UNCHANGED << store, batch, keys, records >>

\* query: the iteration over the index sublevel; no key ends the call with
\* [], otherwise this.getMany(keys) is called.
Scan(p) ==
    /\ pc[p] = "scan"
    /\ LET ks == QueryScan(store, arg[p].indexName, arg[p].x)
       IN  /\ keys' = [keys EXCEPT ![p] = ks]
           /\ IF ks = <<>>
              THEN /\ pc' = [pc EXCEPT ![p] = "done"]
                   /\ result' = [result EXCEPT ![p] = "ok"]
                   /\ io' = io
              ELSE /\ pc' = [pc EXCEPT ![p] = "getMany"]
                   /\ result' = result
                   /\ io' = [io EXCEPT ![p] = @ \cup {"getMany"}]
    /\ UNCHANGED << store, arg, batch, records, calls >>

\* query: the result of getMany, filtered, is returned.
Lookup(p) ==
    /\ pc[p] = "getMany"
    /\ records' = [records EXCEPT ![p] = QueryLookup(store, keys[p])]
    /\ pc' = [pc EXCEPT ![p] = "done"]
    /\ result' = [result EXCEPT ![p] = "ok"]
    /\ UNCHANGED << store, arg, batch, keys, io, calls >>

\* The caller has the outcome; the slot is free for the next call.
Return(p) ==
    /\ pc[p] = "done"
    /\ pc' = [pc EXCEPT ![p] = "idle"]
    /\ arg' = [arg EXCEPT ![p] = NoArg]
    /\ batch' = [batch EXCEPT ![p] = <<>>]
    /\ keys' = [keys EXCEPT ![p] = <<>>]
    /\ result' = [result EXCEPT ![p] = "pending"]
    /\ records' = [records EXCEPT ![p] = <<>>]
    /\ io' = [io EXCEPT ![p] = {}]
    /\ UNCHANGED << store, calls >>

\* No other call is in flight.
Quiet(p) == \A q \in Procs \ {p} : pc[q] = "idle"

Next ==
    \/ \E p \in Procs, key \in Keys, value \in Values : CallPut(p, key, value)
    \/ \E p \in Procs, key \in Keys : CallDel(p, key)
    \/ \E p \in Procs : DelRead(p)
    \/ \E p \in Procs : Write(p)
    \/ \E p \in Procs : WriteFail(p)
    \/ \E p \in Procs, indexName \in QueryNames, value \in IndexValues :
           CallQuery(p, indexName, value)
    \/ \E p \in Procs : Scan(p)
    \/ \E p \in Procs : Lookup(p)
    \/ \E p \in Procs : Return(p)

\* Calls overlap freely.
Spec == Init /\ [][Next]_vars

\* Calls run one at a time: a call starts when no other is in flight.
NextSeq ==
    \/ \E p \in Procs, key \in Keys, value \in Values :
           Quiet(p) /\ CallPut(p, key, value)
    \/ \E p \in Procs, key \in Keys : Quiet(p) /\ CallDel(p, key)
    \/ \E p \in Procs : DelRead(p)
    \/ \E p \in Procs : Write(p)
    \/ \E p \in Procs : WriteFail(p)
    \/ \E p \in Procs, indexName \in QueryNames, value \in IndexValues :
           Quiet(p) /\ CallQuery(p, indexName, value)
    \/ \E p \in Procs : Scan(p)
    \/ \E p \in Procs : Lookup(p)
    \/ \E p \in Procs : Return(p)

SpecSeq == Init /\ [][NextSeq]_vars

\* No put or del on key is in flight in another call slot.
KeyFree(p, key) ==
    \A q \in Procs \ {p} :
        pc[q] \in { "get", "write" } => arg[q].key # key

\* Calls overlap, but the puts and dels in flight at the same time target
\* pairwise distinct keys.
NextDistinct ==
    \/ \E p \in Procs, key \in Keys, value \in Values :
           KeyFree(p, key) /\ CallPut(p, key, value)
    \/ \E p \in Procs, key \in Keys : KeyFree(p, key) /\ CallDel(p, key)
    \/ \E p \in Procs : DelRead(p)
    \/ \E p \in Procs : Write(p)
    \/ \E p \in Procs : WriteFail(p)
    \/ \E p \in Procs, indexName \in QueryNames, value \in IndexValues :
           CallQuery(p, indexName, value)
    \/ \E p \in Procs : Scan(p)
    \/ \E p \in Procs : Lookup(p)
    \/ \E p \in Procs : Return(p)

SpecDistinct == Init /\ [][NextDistinct]_vars

\* ================================================================ claims
\* What getter of index name returns on record v (no getter raises on a
\* record that is stored: the put of such a record is rejected).
IndexValueOf(name, v) == indexes[name].getter[v].val

\* The entries of index name whose second component is key k.
EntriesOf(s, name, k) == { e \in s.idx[name] : e[2] = k }

\* How often k occurs in the sequence ks.
Count(ks, k) == Cardinality({ i \in DOMAIN ks : ks[i] = k })

\* No put or del is in flight.
Completed == \A p \in Procs : pc[p] \notin { "get", "write" }

\* Call slot p takes the step that commits its batch.
Commits(p, op) ==
    /\ pc[p] = "write"
    /\ arg[p].op = op
    /\ pc'[p] = "done"
    /\ result'[p] = "ok"

\* C1 (collection invariant): after completed put and del calls run one at
\* a time, for every present key K with record V and every index I, I's
\* sublevel holds exactly the entry (I.getter(V), K) for K when I.getter(V)
\* is defined, and no entry for K otherwise.
C1_CollectionInvariant ==
    Completed =>
        \A k \in DOMAIN store.primary : \A name \in IndexNames :
            LET iv == IndexValueOf(name, store.primary[k])
            IN  EntriesOf(store, name, k) =
                    IF iv # <<>> THEN { << iv[1], k >> } ELSE {}

\* C2 (update invariant): when put(k, v2) commits over the record v1 that
\* put(k, v1) stored, and I.getter(v1) and I.getter(v2) are defined and
\* differ, query(I, I.getter(v1)) no longer returns k's record and
\* query(I, I.getter(v2)) returns it exactly once.
C2_UpdateInvariant ==
    [][\A p \in Procs : \A name \in IndexNames :
        LET k  == arg[p].key
            o  == IF k \in DOMAIN store.primary
                  THEN IndexValueOf(name, store.primary[k]) ELSE <<>>
            n  == IndexValueOf(name, arg[p].value[1])
        IN  (Commits(p, "put") /\ o # <<>> /\ n # <<>> /\ o # n) =>
                /\ Count(QueryKeys(store', name, o[1]), k) = 0
                /\ Count(QueryKeys(store', name, n[1]), k) = 1
      ]_vars

\* C3 (put postcondition): when put(k, v) commits, get(k) returns v and for
\* every index I with I.getter(v) defined query(I, I.getter(v)) returns v
\* exactly once for key k.
C3_PutPostcondition ==
    [][\A p \in Procs :
        LET k == arg[p].key
            v == arg[p].value[1]
        IN  Commits(p, "put") =>
                /\ Get(store', k) = << v >>
                /\ \A name \in IndexNames :
                       LET n == IndexValueOf(name, v)
                       IN  n # <<>> =>
                             Count(QueryKeys(store', name, n[1]), k) = 1
      ]_vars

\* C4 (delete postcondition): when del(k) commits, get(k) is absent and no
\* query, on any index and any index value, returns a record of k.
C4_DeletePostcondition ==
    [][\A p \in Procs :
        LET k == arg[p].key
        IN  Commits(p, "del") =>
                /\ Get(store', k) = <<>>
                /\ \A name \in IndexNames : \A x \in IndexValues :
                       Count(QueryKeys(store', name, x), k) = 0
      ]_vars

\* C4 witness: a del has committed while an index still holds an entry for
\* its key, left by an earlier put of another index value.
C4_Witness ==
    \E p \in Procs :
        /\ pc[p] = "done" /\ arg[p].op = "del" /\ result[p] = "ok"
        /\ "write" \in io[p]
        /\ \E name \in IndexNames : EntriesOf(store, name, arg[p].key) # {}

\* C5 (null-index invariant): after completed put and del calls, when key k
\* is present with record v and I.getter(v) is undefined, I's sublevel holds
\* no entry for k and no query on I returns k's record.
C5_NullIndexInvariant ==
    Completed =>
        \A k \in DOMAIN store.primary : \A name \in IndexNames :
            IndexValueOf(name, store.primary[k]) = <<>> =>
                /\ EntriesOf(store, name, k) = {}
                /\ \A x \in IndexValues :
                       Count(QueryKeys(store, name, x), k) = 0

\* Operation op of a batch is in effect in store s.
Visible(s, op) ==
    IF op.sublevel = "main"
    THEN IF op.type = "put" THEN Get(s, op.key) = << op.value >>
         ELSE Get(s, op.key) = <<>>
    ELSE IF op.type = "put" THEN op.key \in s.idx[op.sublevel]
         ELSE op.key \notin s.idx[op.sublevel]

\* C6 (atomic visibility): the store changes only in the step that commits
\* one call's batch, and after that step the primary write and every index
\* write the call staged are in effect together, so no reader sees a state
\* with only some of them applied.
C6_AtomicVisibility ==
    [][store' # store =>
        \E p \in Procs :
            /\ pc[p] = "write" /\ pc'[p] = "done"
            /\ batch[p] # <<>>
            /\ batch[p][1].sublevel = "main"
            /\ arg[p].op = "put" =>
                   batch[p] = PutStage(arg[p].key, arg[p].value[1]).ops
            /\ \A i \in DOMAIN batch[p] : Visible(store', batch[p][i])
      ]_vars

\* C6 witness: a put that staged the record and at least one index entry
\* has committed.
C6_Witness ==
    \E p \in Procs :
        /\ pc[p] = "done" /\ arg[p].op = "put" /\ result[p] = "ok"
        /\ Len(batch[p]) >= 2

\* Some getter raises on record v.
Raises(v) == \E name \in IndexNames : indexes[name].getter[v].raised

\* C7 as stated: when a getter raises in put, nothing has been staged.
C7_NothingStaged ==
    \A p \in Procs :
        (arg[p].op = "put" /\ result[p] = "GetterFailure") => batch[p] = <<>>

\* C7 as amended: when a getter raises in put(k, v), the call ends in the
\* step that raised, with the failure as its outcome, without writing the
\* batch, and the store is unchanged.
C7_GetterFailure ==
    [][\A p \in Procs :
        (pc[p] = "idle" /\ arg'[p].op = "put" /\ Raises(arg'[p].value[1])) =>
            /\ store' = store
            /\ pc'[p] = "done"
            /\ result'[p] = "GetterFailure"
            /\ "write" \notin io'[p]
      ]_vars

\* C7 witness: a put has been rejected by a raising getter after it had
\* staged the record and an index entry.
C7_Witness ==
    \E p \in Procs :
        /\ arg[p].op = "put" /\ result[p] = "GetterFailure"
        /\ Len(batch[p]) >= 2

\* C8 (commit failure): a put or del whose batch.write() fails ends with
\* that failure as its outcome, the failing step leaves the store as it was,
\* and no earlier step of a call changes the store: the only step of a call
\* that changes the store is its successful commit.
C8_CommitFailure ==
    [][\A p \in Procs :
        /\ (pc[p] = "write" /\ result'[p] # "ok" /\ pc'[p] # "write") =>
               /\ store' = store
               /\ pc'[p] = "done"
               /\ result'[p] = "StoreFailure"
        /\ (pc'[p] # pc[p] /\ store' # store) =>
               (pc[p] = "write" /\ result'[p] = "ok")
      ]_vars

\* C8 witness: the commit of a put or del has failed while the store holds
\* records.
C8_Witness ==
    \E p \in Procs :
        /\ result[p] = "StoreFailure" /\ batch[p] # <<>>
        /\ DOMAIN store.primary # {}

\* C9 (idempotent delete): when the read of del(k) finds k absent, the call
\* ends successfully in that step, stages and writes no batch, and the
\* store is unchanged.
C9_IdempotentDelete ==
    [][\A p \in Procs :
        (pc[p] = "get" /\ pc'[p] # "get" /\ Get(store, arg[p].key) = <<>>) =>
            /\ pc'[p] = "done"
            /\ result'[p] = "ok"
            /\ store' = store
            /\ batch'[p] = <<>>
            /\ "write" \notin io'[p]
      ]_vars

\* C9 witness: a del of an absent key has returned successfully while other
\* keys are present.
C9_Witness ==
    \E p \in Procs :
        /\ pc[p] = "done" /\ arg[p].op = "del" /\ result[p] = "ok"
        /\ "write" \notin io[p]
        /\ arg[p].key \notin DOMAIN store.primary
        /\ DOMAIN store.primary # {}

\* C10 (unknown index): query(name, x) with a name that is not registered
\* fails with IndexNotFound, opens no iterator, calls no getMany, and leaves
\* the store unchanged.
C10_UnknownIndex ==
    [][\A p \in Procs :
        (pc[p] = "idle" /\ arg'[p].op = "query"
                        /\ arg'[p].indexName \notin IndexNames) =>
            /\ store' = store
            /\ pc'[p] = "done"
            /\ result'[p] = "IndexNotFound"
            /\ io'[p] = {}
      ]_vars

\* C11 (prefix safety): the scan of query(I, x) yields only entries whose
\* first component is x, so a key is collected only if the index holds the
\* entry (x, key); a record indexed under "ab" alone is never collected by
\* query(I, "a").
C11_PrefixSafety ==
    \A name \in IndexNames : \A x \in IndexValues :
        /\ LET es == Iterator(store.idx[name], << x >>, << x, <<HighChar>> >>)
           IN  \A i \in DOMAIN es : es[i][1] = x
        /\ LET ks == QueryScan(store, name, x)
           IN  \A i \in DOMAIN ks : << x, ks[i] >> \in store.idx[name]

\* C11 witness: byTag holds an entry under "a" and an entry under "ab" for
\* two different keys that sort below the upper bound, and the key under
\* "ab" has no entry under "a".
C11_Witness ==
    \E j \in Keys, k \in Keys :
        /\ j # k
        /\ j # <<HighChar>> /\ k # <<HighChar>>
        /\ << <<97>>, j >> \in store.idx["byTag"]
        /\ << <<97, 98>>, k >> \in store.idx["byTag"]
        /\ << <<97>>, k >> \notin store.idx["byTag"]
        /\ QueryScan(store, "byTag", <<97>>) = << j >>

\* The step of call slot p that writes its batch has the effect of the whole
\* call run at that moment: for del, the batch is the one the record now
\* stored would give.
SerialEffect(p) ==
    (pc[p] = "write" /\ pc'[p] = "done" /\ result'[p] = "ok") =>
        IF arg[p].op = "put"
        THEN store' = ApplyAll(store,
                          PutStage(arg[p].key, arg[p].value[1]).ops)
        ELSE /\ Get(store, arg[p].key) # <<>>
             /\ store' = ApplyAll(store,
                           DelStage(arg[p].key,
                                    Get(store, arg[p].key)[1]).ops)

\* Every step is the step of a whole call run one at a time, in the order of
\* the commits.
C12_SerialEquivalence == [][\A p \in Procs : SerialEffect(p)]_vars

\* C12 (distinct-key parallelism): when the puts and dels in flight together
\* target pairwise distinct keys, every commit has the effect of the whole
\* call run alone at that moment, and once the calls are complete the
\* collection invariant holds.
C12_DistinctKeys ==
    [][/\ \A p \in Procs : SerialEffect(p)
       /\ C1_CollectionInvariant'
      ]_vars

\* The del staged on batch b removes the entry e of index name.
Removes(b, name, e) ==
    \E i \in DOMAIN b :
        b[i].type = "del" /\ b[i].sublevel = name /\ b[i].key = e

\* C13 (same-key race): when a del of k commits a batch staged from a record
\* that another call has replaced since the read, so that the batch does not
\* remove the entry of the record now stored, the commit leaves k absent
\* while that entry remains: the collection invariant is violated.
C13_SameKeyRace ==
    [][\A p \in Procs : \A name \in IndexNames :
        LET k == arg[p].key
            n == IF k \in DOMAIN store.primary
                 THEN IndexValueOf(name, store.primary[k]) ELSE <<>>
        IN  (Commits(p, "del") /\ n # <<>>
                /\ ~Removes(batch[p], name, << n[1], k >>)) =>
                /\ k \notin DOMAIN store'.primary
                /\ << n[1], k >> \in store'.idx[name]
      ]_vars

\* C13 witness: a put of k and a del of k are both just complete, the del
\* read the record before the put replaced it, and k is absent while the
\* entry the put wrote remains.
C13_Witness ==
    \E p \in Procs : \E q \in Procs \ {p} : \E name \in IndexNames :
        LET k == arg[p].key
            n == IF arg[q].value = <<>> THEN <<>>
                 ELSE IndexValueOf(name, arg[q].value[1])
        IN  /\ pc[p] = "done" /\ arg[p].op = "del" /\ result[p] = "ok"
            /\ "write" \in io[p]
            /\ pc[q] = "done" /\ arg[q].op = "put" /\ result[q] = "ok"
            /\ arg[q].key = k
            /\ n # <<>>
            /\ ~Removes(batch[p], name, << n[1], k >>)
            /\ k \notin DOMAIN store.primary
            /\ << n[1], k >> \in store.idx[name]

\* The keys of ks that are present in store s, in the order of ks.
Present(s, ks) == SelectSeq(ks, LAMBDA k : k \in DOMAIN s.primary)

\* C14 (query under concurrent writes): whatever has committed since the
\* scan, the lookup step ends the query successfully with one record per
\* scanned key that is present at that moment, each the record stored for
\* that key at that moment, in scan order; keys deleted since the scan are
\* dropped and no placeholder is returned.
C14_QueryTolerates ==
    [][\A p \in Procs :
        (pc[p] = "getMany" /\ pc'[p] # "getMany") =>
            LET kept == Present(store, keys[p])
            IN  /\ pc'[p] = "done"
                /\ result'[p] = "ok"
                /\ Len(records'[p]) = Len(kept)
                /\ \A i \in DOMAIN kept :
                       records'[p][i] = store.primary[kept[i]]
      ]_vars

\* C14 witness: a query has returned fewer records than it scanned keys
\* because a del, just complete, removed a scanned key and its entry after
\* the scan.
C14_Witness ==
    \E p \in Procs : \E q \in Procs \ {p} :
        /\ pc[p] = "done" /\ arg[p].op = "query" /\ result[p] = "ok"
        /\ pc[q] = "done" /\ arg[q].op = "del" /\ result[q] = "ok"
        /\ \E i \in DOMAIN keys[p] : keys[p][i] = arg[q].key
        /\ Removes(batch[q], arg[p].indexName, << arg[p].x, arg[q].key >>)
        /\ Len(records[p]) < Len(keys[p])

\* C15 (no orphan or stale entries): after completed put and del calls run
\* one at a time, index I holds the entry (x, K) if and only if K is present
\* with a record V such that I.getter(V) is defined and equals x.
C15_NoOrphanOrStale ==
    Completed =>
        \A name \in IndexNames : \A x \in IndexValues : \A k \in Keys :
            << x, k >> \in store.idx[name] <=>
                /\ k \in DOMAIN store.primary
                /\ IndexValueOf(name, store.primary[k]) = << x >>

\* C16 (scan upper bound): for every entry (x, K) that put has stored, the
\* upper bound [x, "\uffff"] of query sorts after the entry, so that the
\* scan of query(I, x) collects K.
C16_ScanUpperBound ==
    \A name \in IndexNames : \A e \in store.idx[name] :
        /\ Less(EncodeKey(e), EncodeKey(<< e[1], <<HighChar>> >>))
        /\ Count(QueryScan(store, name, e[1]), e[2]) = 1

\* C17 (query result order): the keys a query has collected are in strictly
\* ascending order of the primary key, the records it returns follow that
\* order with the absent ones left out, and a query whose scan found no key
\* has returned [] without calling getMany.
C17_ResultOrder ==
    /\ \A p \in Procs :
           /\ \A i \in DOMAIN keys[p] : \A j \in DOMAIN keys[p] :
                  i < j => Less(EncodeString(keys[p][i]),
                                EncodeString(keys[p][j]))
           /\ (pc[p] = "done" /\ arg[p].op = "query" /\ result[p] = "ok"
                   /\ keys[p] = <<>>) =>
                  (records[p] = <<>> /\ "getMany" \notin io[p])
    /\ \A name \in IndexNames : \A x \in IndexValues :
           LET ks == QueryKeys(store, name, x)
               rs == Query(store, name, x)
           IN  /\ \A i \in DOMAIN ks : \A j \in DOMAIN ks :
                      i < j => Less(EncodeString(ks[i]), EncodeString(ks[j]))
               /\ Len(rs) = Len(ks)
               /\ \A i \in DOMAIN ks : rs[i] = store.primary[ks[i]]

\* C17 witness: a query has returned the records of two keys.
C17_Witness ==
    \E p \in Procs :
        /\ pc[p] = "done" /\ arg[p].op = "query" /\ result[p] = "ok"
        /\ Len(keys[p]) >= 2
        /\ Len(records[p]) >= 2

\* C18 (no missing entry): in every reachable state, whatever the
\* interleaving, every present key K with record V has the entry
\* (I.getter(V), K) in every index I whose getter is defined on V.
C18_NoMissingEntry ==
    \A k \in DOMAIN store.primary : \A name \in IndexNames :
        LET iv == IndexValueOf(name, store.primary[k])
        IN  iv # <<>> => << iv[1], k >> \in store.idx[name]

\* C18 witness: a put of k has committed while a del of the same k, which
\* has read the record, has not yet written its batch.
C18_Witness ==
    \E p \in Procs : \E q \in Procs \ {p} :
        /\ pc[p] = "write" /\ arg[p].op = "del"
        /\ pc[q] = "done" /\ arg[q].op = "put" /\ result[q] = "ok"
        /\ arg[q].key = arg[p].key
        /\ arg[p].key \in DOMAIN store.primary
        /\ \E name \in IndexNames :
               IndexValueOf(name, store.primary[arg[p].key]) # <<>>

\* C19 (query soundness): after completed put and del calls run one at a
\* time, every record query(I, x) returns has I.getter(record) = x, and no
\* key's record is returned twice.
C19_QuerySoundness ==
    Completed =>
        \A name \in IndexNames : \A x \in IndexValues :
            LET ks == QueryKeys(store, name, x)
            IN  /\ \A i \in DOMAIN ks :
                       IndexValueOf(name, store.primary[ks[i]]) = << x >>
                /\ \A i \in DOMAIN ks : Count(ks, ks[i]) = 1

\* C20 (write frame): the commit of put(k, v) or del(k) leaves the record of
\* every other key and every index entry whose second component is not k as
\* they were, and no other step, of query in particular, changes the store.
C20_WriteFrame ==
    [][\A p \in Procs :
        LET k == arg[p].key
        IN  /\ (Commits(p, "put") \/ Commits(p, "del")) =>
                   /\ \A j \in Keys \ {k} : Get(store', j) = Get(store, j)
                   /\ \A name \in IndexNames :
                          { e \in store'.idx[name] : e[2] # k } =
                          { e \in store.idx[name] : e[2] # k }
            /\ (pc'[p] # pc[p] /\ (arg[p].op = "query"
                                     \/ arg'[p].op = "query")) =>
                   store' = store
      ]_vars

\* C20 witness: a put has committed while another key is present with an
\* index entry.
C20_Witness ==
    \E p \in Procs : \E j \in DOMAIN store.primary :
        /\ pc[p] = "done" /\ arg[p].op = "put" /\ result[p] = "ok"
        /\ j # arg[p].key
        /\ \E name \in IndexNames : EntriesOf(store, name, j) # {}

====
